---- MODULE Spec2Model ----
(***************************************************************************)
(* find_digits (src/main.rs): per-line calibration value from the first    *)
(* and the last digit (literal or spelled) of a line, summed over a file.  *)
(*                                                                         *)
(* A line (Rust &str) is the sequence of its UTF-8 bytes.  An ASCII byte   *)
(* is written as the one-character string of its character; the bytes of   *)
(* a multi-byte character are written by their hexadecimal names.          *)
(***************************************************************************)
EXTENDS Integers, Sequences, FiniteSets, TLC

VARIABLES
    file,            \* the lines the reader yields, in file order
    pc,              \* "Start", "Reading", "Done", "Exited", "Panicked"
    number,          \* lines consumed so far (enumerate() index of the next)
    total_sum,
    parsed_lines,
    incorrect_lines,
    exit_code,
    stdout_last,     \* the last report printed: <<kind, parsed, incorrect, sum>>
    t_line,          \* unit-test harness: the line under test
    t_call,          \* unit-test harness: "none", "find", "r_find", "extract_number"
    t_found_pos,     \* unit-test harness: the found_pos handed to r_find
    t_res,           \* unit-test harness: outcome of find / r_find
    t_amount         \* unit-test harness: outcome of extract_number

vars == <<file, pc, number, total_sum, parsed_lines, incorrect_lines, exit_code,
          stdout_last, t_line, t_call, t_found_pos, t_res, t_amount>>

aggVars == <<file, pc, number, total_sum, parsed_lines, incorrect_lines, exit_code,
             stdout_last>>

testVars == <<t_line, t_call, t_found_pos, t_res, t_amount>>

----------------------------------------------------------------------------
(* Bounds *)

MaxTokens == 2       \* harness lines are made of at most this many fragments
MaxLines == 3        \* files hold at most this many lines (plus the reference file)

----------------------------------------------------------------------------
(* Characters and strings *)

\* char::is_ascii_digit
AsciiDigits == {"0", "1", "2", "3", "4", "5", "6", "7", "8", "9"}

is_ascii_digit(c) == c \in AsciiDigits

\* The multi-byte character used is U+00E9, C3 A9 in UTF-8: C3 is its lead
\* byte and A9 its continuation byte (10xxxxxx).
ContinuationBytes == {"A9"}

\* str::is_char_boundary: 0 and len are boundaries, otherwise the byte at
\* index i (0-based) must not be a continuation byte.
is_char_boundary(line, i) ==
    \/ i = 0
    \/ i = Len(line)
    \/ i > 0 /\ i < Len(line) /\ line[i + 1] \notin ContinuationBytes

\* line.chars(): one char per non-continuation byte, named by its lead byte.
chars(line) == SelectSeq(line, LAMBDA b : b \notin ContinuationBytes)

\* line.chars().rev()
RECURSIVE Reverse(_)
Reverse(s) == IF s = <<>> THEN <<>> ELSE Append(Reverse(Tail(s)), Head(s))

chars_rev(line) == Reverse(chars(line))

\* line[a..b] panics unless a <= b <= len and both ends are char boundaries.
SliceOk(line, a, b) ==
    /\ a <= b
    /\ b <= Len(line)
    /\ is_char_boundary(line, a)
    /\ is_char_boundary(line, b)

\* line[a..b] (0-based, end-exclusive)
Slice(line, a, b) == SubSeq(line, a + 1, b)

----------------------------------------------------------------------------
(* Digit tables: (probe, word, digit) *)

LETTERS_DIGITS_typo ==
    << << <<"o","n","e">>, <<"o","n","e">>, "0" >>,
       << <<"t","w","o">>, <<"t","w","o">>, "2" >>,
       << <<"s","i","x">>, <<"s","i","x">>, "6" >>,
       << <<"f","o","u">>, <<"f","o","u","r">>, "4" >>,
       << <<"f","i","v">>, <<"f","i","v","e">>, "5" >>,
       << <<"n","i","n">>, <<"n","i","n","e">>, "9" >>,
       << <<"s","e","v">>, <<"s","e","v","e","n">>, "7" >>,
       << <<"e","i","g">>, <<"e","i","g","h","t">>, "8" >>,
       << <<"t","h","r">>, <<"t","h","r","e","e">>, "3" >> >>

LETTERS_DIGITS ==
    << << <<"o","n","e">>, <<"o","n","e">>, "1" >>,
       << <<"t","w","o">>, <<"t","w","o">>, "2" >>,
       << <<"s","i","x">>, <<"s","i","x">>, "6" >>,
       << <<"f","o","u">>, <<"f","o","u","r">>, "4" >>,
       << <<"f","i","v">>, <<"f","i","v","e">>, "5" >>,
       << <<"n","i","n">>, <<"n","i","n","e">>, "9" >>,
       << <<"s","e","v">>, <<"s","e","v","e","n">>, "7" >>,
       << <<"e","i","g">>, <<"e","i","g","h","t">>, "8" >>,
       << <<"t","h","r">>, <<"t","h","r","e","e">>, "3" >> >>

LETTERS_DIGITS_REV ==
    << << <<"o","n","e">>, <<"o","n","e">>, "1" >>,
       << <<"t","w","o">>, <<"t","w","o">>, "2" >>,
       << <<"s","i","x">>, <<"s","i","x">>, "6" >>,
       << <<"o","u","r">>, <<"f","o","u","r">>, "4" >>,
       << <<"i","v","e">>, <<"f","i","v","e">>, "5" >>,
       << <<"i","n","e">>, <<"n","i","n","e">>, "9" >>,
       << <<"v","e","n">>, <<"s","e","v","e","n">>, "7" >>,
       << <<"g","h","t">>, <<"e","i","g","h","t">>, "8" >>,
       << <<"r","e","e">>, <<"t","h","r","e","e">>, "3" >> >>

LETTERS_DIGIT_MIN_LEN == 3

----------------------------------------------------------------------------
(* SearchResult and the outcomes of a scan *)

\* Option<char>::None
NoChar == "None"

\* SearchResult { number, last_parsed_position }; panic marks a scan that
\* aborted on a slice that is not on a char boundary.
SearchResult(n, p) == [panic |-> FALSE, number |-> n, last_parsed_position |-> p]

ScanPanic == [panic |-> TRUE, number |-> NoChar, last_parsed_position |-> 0]

----------------------------------------------------------------------------
(* Forward scan *)

\* main.rs:155, the full-word test after a probe match: "ok" (the word is
\* here), "no", or "panic" (the slice ends inside a character).
find_full_word_nocheck(line, pos, rest, word) == "ok"

find_full_word(line, pos, rest, word) ==
    LET length == Len(word) IN
    IF rest >= length
    THEN IF ~SliceOk(line, pos, pos + length) THEN "panic"
         ELSE IF Slice(line, pos, pos + length) = word THEN "ok" ELSE "no"
    ELSE "no"

\* main.rs:156-159, the result of a full-word match at pos.
find_word_result(i, pos) == SearchResult(i[3], pos)

\* main.rs:152-165, the for loop over the table from entry k on: "return"
\* with a SearchResult, "panic", or "next" (fall out of the loop, or break).
RECURSIVE find_for(_, _, _, _)
find_for(line, pos, rest, k) ==
    IF k > Len(LETTERS_DIGITS) THEN [ctl |-> "next", res |-> ScanPanic]
    ELSE LET i == LETTERS_DIGITS[k] IN
         IF ~SliceOk(line, pos, pos + LETTERS_DIGIT_MIN_LEN)
         THEN [ctl |-> "panic", res |-> ScanPanic]
         ELSE IF Slice(line, pos, pos + LETTERS_DIGIT_MIN_LEN) = i[1]
         THEN LET full == find_full_word(line, pos, rest, i[2]) IN
              CASE full = "ok" -> [ctl |-> "return", res |-> find_word_result(i, pos)]
                [] full = "panic" -> [ctl |-> "panic", res |-> ScanPanic]
                [] OTHER -> [ctl |-> "next", res |-> ScanPanic]   \* break
         ELSE find_for(line, pos, rest, k + 1)

\* main.rs:136-168, the while loop; ci counts the chars the iterator yielded.
RECURSIVE find_while(_, _, _)
find_while(line, pos, ci) ==
    LET line_length == Len(line)
        cs == chars(line)
    IN
    IF ~(line_length > pos) THEN SearchResult(NoChar, line_length)
    ELSE IF ci < Len(cs) /\ is_ascii_digit(cs[ci + 1])
    THEN SearchResult(cs[ci + 1], pos)
    ELSE LET rest == line_length - pos IN
         IF rest < LETTERS_DIGIT_MIN_LEN THEN find_while(line, pos + 1, ci + 1)
         ELSE LET f == find_for(line, pos, rest, 1) IN
              CASE f.ctl = "return" -> f.res
                [] f.ctl = "panic" -> ScanPanic
                [] OTHER -> find_while(line, pos + 1, ci + 1)

find(line) == find_while(line, 0, 0)

----------------------------------------------------------------------------
(* Backward scan *)

\* main.rs:182, the loop condition.
r_find_guard_off(pos, found_pos) == pos > found_pos + 1

r_find_guard(pos, found_pos) == pos > found_pos

\* main.rs:200, the full-word test after a suffix-probe match.
r_find_full_word(line, pos, word) ==
    LET length == Len(word) IN
    IF pos >= length
    THEN IF ~SliceOk(line, pos - length, pos) THEN "panic"
         ELSE IF Slice(line, pos - length, pos) = word THEN "ok" ELSE "no"
    ELSE "no"

\* main.rs:201-204, the result of a full-word match ending at pos.
r_find_word_result_end(i, pos) == SearchResult(i[3], pos)

r_find_word_result(i, pos) == SearchResult(i[3], pos - Len(i[2]))

\* main.rs:197-210, the for loop over the suffix table from entry k on.
RECURSIVE r_find_for(_, _, _)
r_find_for(line, pos, k) ==
    IF k > Len(LETTERS_DIGITS_REV) THEN [ctl |-> "next", res |-> ScanPanic]
    ELSE LET i == LETTERS_DIGITS_REV[k] IN
         IF ~SliceOk(line, pos - LETTERS_DIGIT_MIN_LEN, pos)
         THEN [ctl |-> "panic", res |-> ScanPanic]
         ELSE IF Slice(line, pos - LETTERS_DIGIT_MIN_LEN, pos) = i[1]
         THEN LET full == r_find_full_word(line, pos, i[2]) IN
              CASE full = "ok" -> [ctl |-> "return", res |-> r_find_word_result(i, pos)]
                [] full = "panic" -> [ctl |-> "panic", res |-> ScanPanic]
                [] OTHER -> [ctl |-> "next", res |-> ScanPanic]   \* break
         ELSE r_find_for(line, pos, k + 1)

\* main.rs:182-213, the while loop; ci counts the chars the reversed
\* iterator yielded.
RECURSIVE r_find_while(_, _, _, _)
r_find_while(line, found_pos, pos, ci) ==
    LET cs == chars_rev(line) IN
    IF ~r_find_guard(pos, found_pos) THEN SearchResult(NoChar, pos)
    ELSE IF ci < Len(cs) /\ is_ascii_digit(cs[ci + 1])
    THEN SearchResult(cs[ci + 1], pos)
    ELSE IF pos < LETTERS_DIGIT_MIN_LEN
    THEN r_find_while(line, found_pos, pos - 1, ci + 1)
    ELSE LET f == r_find_for(line, pos, 1) IN
         CASE f.ctl = "return" -> f.res
           [] f.ctl = "panic" -> ScanPanic
           [] OTHER -> r_find_while(line, found_pos, pos - 1, ci + 1)

r_find(line, found_pos) == r_find_while(line, found_pos, Len(line), 0)

----------------------------------------------------------------------------
(* Extractor *)

\* Option<u32>; panic marks an extraction that aborted.
SomeU32(v) == [panic |-> FALSE, some |-> TRUE, val |-> v]

NoneU32 == [panic |-> FALSE, some |-> FALSE, val |-> 0]

PanicU32 == [panic |-> TRUE, some |-> FALSE, val |-> 0]

DigitValue ==
    [c \in AsciiDigits |->
        CASE c = "0" -> 0 [] c = "1" -> 1 [] c = "2" -> 2 [] c = "3" -> 3
          [] c = "4" -> 4 [] c = "5" -> 5 [] c = "6" -> 6 [] c = "7" -> 7
          [] c = "8" -> 8 [] c = "9" -> 9]

\* str::parse::<u32>().ok() of the characters s, acc the value read so far:
\* None on an empty string or a non-digit (the two-character strings parsed
\* here stay far below u32::MAX).
RECURSIVE parse_from(_, _)
parse_from(s, acc) ==
    IF s = <<>> THEN SomeU32(acc)
    ELSE IF ~is_ascii_digit(Head(s)) THEN NoneU32
    ELSE parse_from(Tail(s), acc * 10 + DigitValue[Head(s)])

parse_u32(s) == IF s = <<>> THEN NoneU32 ELSE parse_from(s, 0)

extract_number_swapped(line) ==
    LET res == find(line) IN
    IF res.panic THEN PanicU32
    ELSE LET r_res == r_find(line, res.last_parsed_position) IN
         IF r_res.panic THEN PanicU32
         ELSE IF res.number = NoChar \/ r_res.number = NoChar THEN NoneU32
         ELSE parse_u32(<<r_res.number, res.number>>)

extract_number_past(line) ==
    LET res == find(line) IN
    IF res.panic THEN PanicU32
    ELSE LET r_res == r_find(line, res.last_parsed_position + 1) IN
         IF r_res.panic THEN PanicU32
         ELSE IF res.number = NoChar \/ r_res.number = NoChar THEN NoneU32
         ELSE parse_u32(<<res.number, r_res.number>>)

\* main.rs:113-122
extract_number(line) ==
    LET res == find(line) IN
    IF res.panic THEN PanicU32
    ELSE LET r_res == r_find(line, res.last_parsed_position) IN
         IF r_res.panic THEN PanicU32
         ELSE IF res.number = NoChar \/ r_res.number = NoChar THEN NoneU32
         ELSE parse_u32(<<res.number, r_res.number>>)

----------------------------------------------------------------------------
(* Aggregator: main *)

\* exit_code while the process is still running
Running == -1

\* exit status of a Rust process that panicked
PanicExit == 101

\* One item of reader.lines(): Ok(text) or Err (the line is not valid UTF-8).
OkLine(text) == [ok |-> TRUE, text |-> text]

BrokenLine == [ok |-> FALSE, text |-> <<>>]

\* main.rs:86-93, the match on extract_number's value: the new
\* (total_sum, incorrect_lines).  The u32 counters stay far below 2^32 on
\* the files modelled, so += is plain addition.
match_amount_assign(e, sum, incorrect) ==
    IF e.some
    THEN [total_sum |-> e.val, incorrect_lines |-> incorrect]
    ELSE [total_sum |-> sum, incorrect_lines |-> incorrect + 1]

match_amount_uncounted(e, sum, incorrect) ==
    IF e.some
    THEN [total_sum |-> sum + e.val, incorrect_lines |-> incorrect]
    ELSE [total_sum |-> sum, incorrect_lines |-> incorrect]

match_amount(e, sum, incorrect) ==
    IF e.some
    THEN [total_sum |-> sum + e.val, incorrect_lines |-> incorrect]
    ELSE [total_sum |-> sum, incorrect_lines |-> incorrect + 1]

\* main.rs:55-61, File::open fails: diagnostic, exit(1).
OpenFail ==
    /\ pc = "Start"
    /\ pc' = "Exited"
    /\ exit_code' = 1
    /\ stdout_last' = <<"open_error", 0, 0, 0>>
    /\ UNCHANGED <<file, number, total_sum, parsed_lines, incorrect_lines>>
    /\ UNCHANGED testVars

\* main.rs:55-68, File::open succeeds; counters start at zero.
OpenOk ==
    /\ pc = "Start"
    /\ pc' = "Reading"
    /\ total_sum' = 0
    /\ parsed_lines' = 0
    /\ incorrect_lines' = 0
    /\ UNCHANGED <<file, number, exit_code, stdout_last>>
    /\ UNCHANGED testVars

\* main.rs:70-79, an iteration whose read_result is Err: reported, skipped.
ReadBroken ==
    /\ pc = "Reading"
    /\ number < Len(file)
    /\ ~file[number + 1].ok
    /\ parsed_lines' = parsed_lines + 1
    /\ number' = number + 1
    /\ stdout_last' = <<"broken", number, 0, 0>>
    /\ UNCHANGED <<file, pc, exit_code, total_sum, incorrect_lines>>
    /\ UNCHANGED testVars

\* main.rs:70-84, an iteration whose line is empty: incorrect, skipped.
ReadEmpty ==
    /\ pc = "Reading"
    /\ number < Len(file)
    /\ file[number + 1].ok
    /\ file[number + 1].text = <<>>
    /\ parsed_lines' = parsed_lines + 1
    /\ incorrect_lines' = incorrect_lines + 1
    /\ number' = number + 1
    /\ UNCHANGED <<file, pc, exit_code, total_sum, stdout_last>>
    /\ UNCHANGED testVars

\* main.rs:70-102, an iteration on a non-empty line: extract_number, the
\* match on its value, and the progress report when REPORT_DELAY has elapsed.
\* A panic inside extract_number unwinds out of main after parsed_lines += 1.
ReadLine ==
    /\ pc = "Reading"
    /\ number < Len(file)
    /\ file[number + 1].ok
    /\ file[number + 1].text # <<>>
    /\ parsed_lines' = parsed_lines + 1
    /\ LET e == extract_number(file[number + 1].text)
           m == match_amount(e, total_sum, incorrect_lines)
       IN
       IF e.panic
       THEN /\ pc' = "Panicked"
            /\ exit_code' = PanicExit
            /\ stdout_last' = <<"panic", 0, 0, 0>>
            /\ UNCHANGED <<number, total_sum, incorrect_lines>>
       ELSE /\ total_sum' = m.total_sum
            /\ incorrect_lines' = m.incorrect_lines
            /\ number' = number + 1
            /\ \E delay_elapsed \in BOOLEAN :
                 stdout_last' =
                    IF delay_elapsed
                    THEN <<"progress", parsed_lines + 1, m.incorrect_lines, m.total_sum>>
                    ELSE stdout_last
            /\ UNCHANGED <<pc, exit_code>>
    /\ UNCHANGED file
    /\ UNCHANGED testVars

\* main.rs:104-111, end of input: the final report, the total, exit status 0.
Finish ==
    /\ pc = "Reading"
    /\ number = Len(file)
    /\ pc' = "Done"
    /\ exit_code' = 0
    /\ stdout_last' = <<"final", parsed_lines, incorrect_lines, total_sum>>
    /\ UNCHANGED <<file, number, total_sum, parsed_lines, incorrect_lines>>
    /\ UNCHANGED testVars

----------------------------------------------------------------------------
(* Inputs *)

eightwothree == <<"e","i","g","h","t","w","o","t","h","r","e","e">>

abcone2threexyz == <<"a","b","c","o","n","e","2","t","h","r","e","e","x","y","z">>

treb7uchet == <<"t","r","e","b","7","u","c","h","e","t">>

pqrstsixteen7 == <<"7","p","q","r","s","t","s","i","x","t","e","e","n">>

abcdefg == <<"a","b","c","d","e","f","g">>

\* the strings of test_find / test_extract_number
ReferenceLines == <<eightwothree, abcone2threexyz, treb7uchet, pqrstsixteen7, abcdefg>>

ReferenceFile == [k \in 1..Len(ReferenceLines) |-> OkLine(ReferenceLines[k])]

\* U+00E9 followed by "ab": a line with a two-byte character
e_acute_ab == <<"C3", "A9", "a", "b">>

FileLines ==
    { BrokenLine, OkLine(<<>>), OkLine(eightwothree), OkLine(treb7uchet),
      OkLine(abcdefg), OkLine(<<"1", "0">>), OkLine(e_acute_ab) }

RECURSIVE SeqsUpTo(_, _)
SeqsUpTo(S, n) ==
    IF n = 0 THEN {<<>>}
    ELSE LET prev == SeqsUpTo(S, n - 1) IN
         prev \cup {Append(f, x) : f \in prev, x \in S}

Files == {ReferenceFile} \cup SeqsUpTo(FileLines, MaxLines)

\* Fragments the harness lines are concatenated from: the nine words, cut
\* words (a probe without its word, the head of an overlap), literal digits,
\* a filler letter and a two-byte character.
Tokens ==
    { <<"o","n","e">>, <<"t","w","o">>, <<"s","i","x">>, <<"f","o","u","r">>,
      <<"f","i","v","e">>, <<"n","i","n","e">>, <<"s","e","v","e","n">>,
      <<"e","i","g","h","t">>, <<"t","h","r","e","e">>,
      <<"t","w">>, <<"e","i","g","h">>, <<"f","o","u">>, <<"r","e","e">>,
      <<"0">>, <<"7">>, <<"x">>, <<"C3","A9">> }

RECURSIVE LinesOf(_)
LinesOf(n) ==
    IF n = 0 THEN {<<>>}
    ELSE LET prev == LinesOf(n - 1) IN
         prev \cup {l \o t : l \in prev, t \in Tokens}

TestLines == {ReferenceLines[k] : k \in 1..Len(ReferenceLines)} \cup LinesOf(MaxTokens)

----------------------------------------------------------------------------
(* The run of the program *)

NoResult == SearchResult(NoChar, 0)

Init ==
    /\ file \in Files
    /\ pc = "Start"
    /\ number = 0
    /\ total_sum = 0
    /\ parsed_lines = 0
    /\ incorrect_lines = 0
    /\ exit_code = Running
    /\ stdout_last = <<"none", 0, 0, 0>>
    /\ t_line = <<>>
    /\ t_call = "none"
    /\ t_found_pos = 0
    /\ t_res = NoResult
    /\ t_amount = NoneU32

Next ==
    \/ OpenFail
    \/ OpenOk
    \/ ReadBroken
    \/ ReadEmpty
    \/ ReadLine
    \/ Finish

Spec == Init /\ [][Next]_vars

----------------------------------------------------------------------------
(* The unit tests: one call of a scan on one line *)

\* test_find (main.rs:225-262)
TestFind ==
    /\ t_call = "none"
    /\ t_call' = "find"
    /\ t_res' = find(t_line)
    /\ UNCHANGED <<t_line, t_found_pos, t_amount>>
    /\ UNCHANGED aggVars

\* test_r_find (main.rs:264-307)
TestRFind ==
    /\ t_call = "none"
    /\ \E found_pos \in 0..Len(t_line) :
         /\ t_found_pos' = found_pos
         /\ t_res' = r_find(t_line, found_pos)
    /\ t_call' = "r_find"
    /\ UNCHANGED <<t_line, t_amount>>
    /\ UNCHANGED aggVars

\* test_extract_number (main.rs:309-324)
TestExtractNumber ==
    /\ t_call = "none"
    /\ t_call' = "extract_number"
    /\ t_amount' = extract_number(t_line)
    /\ UNCHANGED <<t_line, t_found_pos, t_res>>
    /\ UNCHANGED aggVars

TestInit ==
    /\ file = <<>>
    /\ pc = "Start"
    /\ number = 0
    /\ total_sum = 0
    /\ parsed_lines = 0
    /\ incorrect_lines = 0
    /\ exit_code = Running
    /\ stdout_last = <<"none", 0, 0, 0>>
    /\ t_line \in TestLines
    /\ t_call = "none"
    /\ t_found_pos = 0
    /\ t_res = NoResult
    /\ t_amount = NoneU32

TestNext ==
    \/ TestFind
    \/ TestRFind
    \/ TestExtractNumber

SpecTest == TestInit /\ [][TestNext]_vars

----------------------------------------------------------------------------
(* What the claims speak of: the digit occurrences of a line *)

SpelledWords ==
    { << <<"o","n","e">>, "1" >>, << <<"t","w","o">>, "2" >>,
      << <<"t","h","r","e","e">>, "3" >>, << <<"f","o","u","r">>, "4" >>,
      << <<"f","i","v","e">>, "5" >>, << <<"s","i","x">>, "6" >>,
      << <<"s","e","v","e","n">>, "7" >>, << <<"e","i","g","h","t">>, "8" >>,
      << <<"n","i","n","e">>, "9" >> }

ForwardProbes == {SubSeq(w[1], 1, 3) : w \in SpelledWords}

IsAscii(line) == \A k \in 1..Len(line) : line[k] \notin {"C3", "A9"}

\* start is the 0-based index of the first character, end the index after
\* the last one.
LiteralOccurrences(line) ==
    { [kind |-> "literal", start |-> k - 1, end |-> k, digit |-> line[k]] :
        k \in {j \in 1..Len(line) : line[j] \in AsciiDigits} }

WordOccurrences(line) ==
    { [kind |-> "word", start |-> p[1], end |-> p[1] + Len(p[2][1]), digit |-> p[2][2]] :
        p \in {q \in (0..Len(line)) \X SpelledWords :
                 /\ q[1] + Len(q[2][1]) <= Len(line)
                 /\ SubSeq(line, q[1] + 1, q[1] + Len(q[2][1])) = q[2][1]} }

Occurrences(line) == LiteralOccurrences(line) \cup WordOccurrences(line)

Leftmost(occ) == CHOOSE o \in occ : \A q \in occ : o.start <= q.start

Rightmost(occ) == CHOOSE o \in occ : \A q \in occ : o.end >= q.end

----------------------------------------------------------------------------
(* C1 *)

\* C1: on an ASCII line with at least one digit occurrence, extract_number
\* returns first*10 + last, first the digit of the occurrence that starts
\* leftmost and last the digit of the occurrence that ends rightmost.
C1_ExtractFirstLast ==
    (t_call = "extract_number" /\ IsAscii(t_line) /\ Occurrences(t_line) # {}) =>
        LET occ == Occurrences(t_line) IN
        t_amount = SomeU32(DigitValue[Leftmost(occ).digit] * 10
                           + DigitValue[Rightmost(occ).digit])

\* extract_number ran on a line whose first and last occurrences are two
\* spelled words sharing a character.
C1_Witness ==
    /\ t_call = "extract_number"
    /\ IsAscii(t_line)
    /\ Occurrences(t_line) # {}
    /\ LET occ == Occurrences(t_line) IN
       /\ Leftmost(occ) # Rightmost(occ)
       /\ Leftmost(occ).end > Rightmost(occ).start
    /\ t_amount.some

----------------------------------------------------------------------------
(* C2 *)

\* C2 as stated: a line with exactly one digit occurrence yields no value.
C2_SingleOccurrenceAbsent ==
    (t_call = "extract_number" /\ Cardinality(Occurrences(t_line)) = 1) =>
        t_amount = NoneU32

\* C2 amended: on a line with exactly one digit occurrence, of digit d, the
\* backward scan bounded by the forward boundary reports that occurrence and
\* extract_number returns d*10 + d; the only other outcome is an abort of the
\* scan on a line with a multi-byte character, never an absent value.
C2_SingleOccurrenceTwice ==
    Cardinality(Occurrences(t_line)) = 1 =>
        LET o == Leftmost(Occurrences(t_line)) IN
        /\ t_call = "extract_number" =>
             /\ t_amount.panic \/ t_amount = SomeU32(DigitValue[o.digit] * 11)
             /\ IsAscii(t_line) => ~t_amount.panic
        /\ (t_call = "r_find" /\ t_found_pos = o.start) =>
             /\ t_res.panic \/ t_res.number = o.digit
             /\ IsAscii(t_line) => ~t_res.panic

\* extract_number ran on a line whose only occurrence is a spelled word that
\* is not at the start of the line.
C2_Witness ==
    /\ t_call = "extract_number"
    /\ Cardinality(Occurrences(t_line)) = 1
    /\ LET o == Leftmost(Occurrences(t_line)) IN
       /\ o.kind = "word"
       /\ o.start > 0
       /\ t_amount = SomeU32(DigitValue[o.digit] * 11)

----------------------------------------------------------------------------
(* C3 *)

\* C3 as stated: a present value is in 11..99.
C3_ValueIn11To99 ==
    (t_call = "extract_number" /\ t_amount.some) => t_amount.val \in 11..99

\* C3 amended: a present value is in 0..99; on a line without the literal
\* character '0' both of its digits are in 1..9, so it is in 11..99.
C3_ValueIn0To99 ==
    (t_call = "extract_number" /\ t_amount.some) =>
        /\ t_amount.val \in 0..99
        /\ (\A k \in 1..Len(t_line) : t_line[k] # "0") =>
             /\ t_amount.val \in 11..99
             /\ t_amount.val % 10 # 0

\* extract_number returned a value below 11, from a line with a literal '0'.
C3_Witness ==
    /\ t_call = "extract_number"
    /\ t_amount.some
    /\ t_amount.val < 11
    /\ \E k \in 1..Len(t_line) : t_line[k] = "0"

----------------------------------------------------------------------------
(* C4 *)

\* C4: on a line with no literal digit and no spelled word, extract_number
\* returns absent (and the two scans return no match).
C4_NoDigitAbsent ==
    Occurrences(t_line) = {} =>
        /\ t_call = "extract_number" => t_amount = NoneU32
        /\ t_call = "find" => t_res = SearchResult(NoChar, Len(t_line))
        /\ (t_call = "r_find" /\ t_found_pos = Len(t_line)) =>
             t_res = SearchResult(NoChar, Len(t_line))

----------------------------------------------------------------------------
(* C8 *)

\* The occurrences r_find(line, found_pos) can hit: those ending right of
\* found_pos.
Hits(line, found_pos) == {o \in Occurrences(line) : o.end > found_pos}

\* C8: on an ASCII line, r_find(line, found_pos) returns the occurrence that
\* ends rightmost among those ending at found_pos+1..len: a literal digit
\* with boundary its index plus one, a spelled word with boundary its start
\* index; without such an occurrence, no match with boundary found_pos.
C8_RFindFirstHit ==
    (t_call = "r_find" /\ IsAscii(t_line)) =>
        LET hits == Hits(t_line, t_found_pos) IN
        IF hits = {} THEN t_res = SearchResult(NoChar, t_found_pos)
        ELSE LET o == Rightmost(hits) IN
             t_res = SearchResult(o.digit, IF o.kind = "literal" THEN o.end ELSE o.start)

\* r_find returned a spelled word that starts left of found_pos and ends
\* right of it.
C8_Witness ==
    /\ t_call = "r_find"
    /\ IsAscii(t_line)
    /\ Hits(t_line, t_found_pos) # {}
    /\ LET o == Rightmost(Hits(t_line, t_found_pos)) IN
       /\ o.kind = "word"
       /\ o.start < t_found_pos
       /\ t_res = SearchResult(o.digit, o.start)

----------------------------------------------------------------------------
(* C9 *)

\* C9: on an ASCII line, find returns the digit of the occurrence with the
\* smallest start index, with boundary that start index; without an
\* occurrence, no match with boundary the line length.  (A probe that is not
\* a full word is no occurrence, so it neither matches nor hides one.)
C9_FindLeftmost ==
    (t_call = "find" /\ IsAscii(t_line)) =>
        LET occ == Occurrences(t_line) IN
        IF occ = {} THEN t_res = SearchResult(NoChar, Len(t_line))
        ELSE t_res = SearchResult(Leftmost(occ).digit, Leftmost(occ).start)

\* find returned a spelled word after it passed a position where a probe
\* matches and the full word does not.
C9_Witness ==
    /\ t_call = "find"
    /\ IsAscii(t_line)
    /\ Occurrences(t_line) # {}
    /\ LET o == Leftmost(Occurrences(t_line)) IN
       /\ o.kind = "word"
       /\ t_res = SearchResult(o.digit, o.start)
       /\ \E k \in 0..(o.start - 1) :
            /\ k + 3 <= Len(t_line)
            /\ SubSeq(t_line, k + 1, k + 3) \in ForwardProbes

----------------------------------------------------------------------------
(* C10 *)

\* C10: on an ASCII line where find matches at boundary p, r_find(line, p)
\* returns a digit, the same as r_find(line, 0); and extract_number is
\* present exactly when find matches.
C10_BoundKeepsAnswer ==
    IsAscii(t_line) =>
        LET res == find(t_line) IN
        /\ (t_call = "r_find" /\ res.number # NoChar
                /\ t_found_pos = res.last_parsed_position) =>
             /\ t_res.number # NoChar
             /\ t_res.number = r_find(t_line, 0).number
        /\ t_call = "extract_number" => (t_amount.some <=> res.number # NoChar)

\* r_find ran from the boundary of a forward match that is not at the start
\* of the line and returned another digit than the forward one.
C10_Witness ==
    /\ t_call = "r_find"
    /\ IsAscii(t_line)
    /\ find(t_line).number # NoChar
    /\ t_found_pos = find(t_line).last_parsed_position
    /\ t_found_pos > 0
    /\ t_res.number # NoChar
    /\ t_res.number # find(t_line).number

----------------------------------------------------------------------------
(* C5 *)

\* What a line contributes to the sum: extract_number's value when the line
\* was decoded, is not empty and has a value, and 0 otherwise.
LineValue(l) ==
    IF l.ok /\ l.text # <<>> /\ extract_number(l.text).some
    THEN extract_number(l.text).val
    ELSE 0

RECURSIVE SumOfValues(_, _)
SumOfValues(f, n) == IF n = 0 THEN 0 ELSE SumOfValues(f, n - 1) + LineValue(f[n])

\* C5: at every point of a run total_sum is the sum of the values of the
\* lines processed so far; at Done every line was processed and the reported
\* total is that sum (249 for the file of the five reference lines).
C5_RunningSum ==
    /\ total_sum = SumOfValues(file, number)
    /\ pc = "Done" =>
         /\ number = Len(file)
         /\ stdout_last = <<"final", parsed_lines, incorrect_lines, total_sum>>
         /\ file = ReferenceFile => total_sum = 249

\* The run over the five reference lines is Done with the total 249.
C5_Witness ==
    /\ pc = "Done"
    /\ file = ReferenceFile
    /\ total_sum = 83 + 13 + 77 + 76
    /\ incorrect_lines = 1

----------------------------------------------------------------------------
(* C6 *)

\* The loop consumed the line file[number + 1] in this step.
Consumes == pc = "Reading" /\ number < Len(file) /\ number' = number + 1

Undecodable(l) == ~l.ok

Empty(l) == l.ok /\ l.text = <<>>

Valueless(l) == l.ok /\ l.text # <<>> /\ extract_number(l.text) = NoneU32

\* C6 as stated: processing an undecodable, empty or valueless line adds one
\* to incorrect_lines, leaves total_sum alone, and the run goes on.
C6_EveryDefectCounted ==
    [][ LET l == file[number + 1] IN
        (Consumes /\ (Undecodable(l) \/ Empty(l) \/ Valueless(l))) =>
            /\ incorrect_lines' = incorrect_lines + 1
            /\ total_sum' = total_sum
            /\ pc' = "Reading" ]_vars

\* C6 amended: an empty or valueless line adds one to incorrect_lines, an
\* undecodable line leaves incorrect_lines as it is; each leaves total_sum
\* alone, is counted in parsed_lines, and the run goes on with the next line.
C6_DefectsNonFatal ==
    [][ (pc = "Reading" /\ number < Len(file)) =>
        LET l == file[number + 1] IN
        /\ (Empty(l) \/ Valueless(l)) =>
             /\ incorrect_lines' = incorrect_lines + 1
             /\ total_sum' = total_sum
        /\ Undecodable(l) =>
             /\ incorrect_lines' = incorrect_lines
             /\ total_sum' = total_sum
        /\ (Undecodable(l) \/ Empty(l) \/ Valueless(l)) =>
             /\ number' = number + 1
             /\ parsed_lines' = parsed_lines + 1
             /\ pc' = "Reading" ]_vars

\* A run is Done over a file with an undecodable, an empty and a valueless
\* line: three lines parsed, two of them counted as incorrect.
C6_Witness ==
    /\ pc = "Done"
    /\ Len(file) = 3
    /\ \E k \in 1..Len(file) : Undecodable(file[k])
    /\ \E k \in 1..Len(file) : Empty(file[k])
    /\ \E k \in 1..Len(file) : Valueless(file[k])
    /\ parsed_lines = 3
    /\ incorrect_lines = 2
    /\ total_sum = 0

----------------------------------------------------------------------------
(* C7 *)

\* C7: once the file is open, whatever its lines hold, the run does not
\* abort: every line is processed and the run is Done with exit code 0.
C7_RunNeverAborts ==
    /\ pc # "Panicked"
    /\ exit_code \in {Running, 0, 1}
    /\ exit_code = 1 => pc = "Exited"
    /\ pc = "Done" => number = Len(file) /\ exit_code = 0

====
